---------------------------- MODULE Spec2Model ----------------------------
(***************************************************************************)
(* A model of the go-box client library (package box): the status-code to  *)
(* error table (error.go), the transport helper (box.go: the token, the    *)
(* URL construction, doRequest, getResponse) and the File and Folder       *)
(* operations built on it (file.go, folder.go).                            *)
(*                                                                         *)
(* Go strings that the code inspects, concatenates or escapes are modelled *)
(* as sequences of tokens.  A token is either a run of unreserved          *)
(* characters ("files", "7", "recursive") or one single other character    *)
(* ("/", " ", "&").  The empty Go string "" is the empty sequence.         *)
(* A Go pointer that may be nil is a record with a field isNil.            *)
(***************************************************************************)
EXTENDS Integers, Sequences, FiniteSets, TLC

VARIABLES
    box,        \* the Box client: APIURL, UPLOADURL, config, token
    recv,       \* the File or Folder struct the caller operates on
    parent,     \* the Folder struct the caller passes as parent
    last,       \* what the most recent API call did and returned
    calls,      \* number of resource operation calls made so far
    sent,       \* number of HTTP requests handed to the HTTP client so far
    given,      \* the token most recently given (SetAccessToken) or obtained (Auth)
    tstatus,    \* the status code handed to toError
    tresults    \* the values toError returned for tstatus, in call order

vars == <<box, recv, parent, last, calls, sent, given, tstatus, tresults>>

----------------------------------------------------------------------------
(* Bounds of the model *)

\* the number of resource operation calls a behaviour makes
MaxCalls == 2

\* the number of times toError is applied to the same status code
MaxApply == 2

\* the range of HTTP status codes toError is applied to
MinStatus == 100

MaxStatus == 599

----------------------------------------------------------------------------
(* error.go: BoxError, the sentinel values, toError *)

\* A *BoxError: the address of the value it points to, and its two fields.
BoxError(addr, code, msg) == [addr |-> addr, StatusCode |-> code, Message |-> msg]

\* The address of a package-level variable's value.
Static(name) == [static |-> name]

\* The address of a value allocated by the n-th allocation of a run.
Heap(n) == [heap |-> n]

SUCCESS == BoxError(Static("SUCCESS"), 200, "Success")

CREATED == BoxError(Static("CREATED"), 201, "Created")

ACCEPTED == BoxError(Static("ACCEPTED"), 202, "Accepted")

NO_CONTENT == BoxError(Static("NO_CONTENT"), 204, "No Content")

REDIRECT == BoxError(Static("REDIRECT"), 302, "Redirect")

NOT_MODIFIED == BoxError(Static("NOT_MODIFIED"), 304, "Not Modified")

UNAUTHORIZED == BoxError(Static("UNAUTHORIZED"), 401, "Unauthorized")

FORBIDDEN == BoxError(Static("FORBIDDEN"), 403, "Forbidden")

NOT_FOUND == BoxError(Static("NOT_FOUND"), 404, "Not found")

NOT_ALLOWED == BoxError(Static("NOT_ALLOWED"), 405, "Not allowed")

CONFLICT == BoxError(Static("CONFLICT"), 409, "Conflict")

PRECONDITION_FAILED == BoxError(Static("PRECONDITION_FAILED"), 412, "Precondition failed")

TOO_MANY_REQUESTS == BoxError(Static("TOO_MANY_REQUESTS"), 429, "Too many requests")

SERVER_ERROR == BoxError(Static("SERVER_ERROR"), 500, "Internal server error")

UNAVAILABLE == BoxError(Static("UNAVAILABLE"), 503, "Unavailable")

\* toError with the 405 case returning the 404 sentinel (a copy-paste slip).
toErrorSlip(status, fresh) ==
    CASE status = 200 -> SUCCESS
      [] status = 201 -> CREATED
      [] status = 202 -> ACCEPTED
      [] status = 204 -> NO_CONTENT
      [] status = 302 -> REDIRECT
      [] status = 304 -> NOT_MODIFIED
      [] status = 401 -> UNAUTHORIZED
      [] status = 403 -> FORBIDDEN
      [] status = 404 -> NOT_FOUND
      [] status = 405 -> NOT_FOUND
      [] status = 409 -> CONFLICT
      [] status = 412 -> PRECONDITION_FAILED
      [] status = 429 -> TOO_MANY_REQUESTS
      [] status = 500 -> SERVER_ERROR
      [] status = 503 -> UNAVAILABLE
      [] OTHER -> BoxError(Heap(fresh), status, "Unknown error")

\* toError(status); fresh is the address the default case's &BoxError{...}
\* allocates.
toError(status, fresh) ==
    CASE status = 200 -> SUCCESS
      [] status = 201 -> CREATED
      [] status = 202 -> ACCEPTED
      [] status = 204 -> NO_CONTENT
      [] status = 302 -> REDIRECT
      [] status = 304 -> NOT_MODIFIED
      [] status = 401 -> UNAUTHORIZED
      [] status = 403 -> FORBIDDEN
      [] status = 404 -> NOT_FOUND
      [] status = 405 -> NOT_ALLOWED
      [] status = 409 -> CONFLICT
      [] status = 412 -> PRECONDITION_FAILED
      [] status = 429 -> TOO_MANY_REQUESTS
      [] status = 500 -> SERVER_ERROR
      [] status = 503 -> UNAVAILABLE
      [] OTHER -> BoxError(Heap(fresh), status, "Unknown error")

----------------------------------------------------------------------------
(* Go errors *)

\* The nil error.
NoErr == [type |-> "nil"]

\* errors.New(msg): a fresh error value with the given text.  arg is the
\* value formatted into the text, 0 if there is none.
ErrorString(msg, arg) == [type |-> "errorString", msg |-> msg, arg |-> arg]

\* An error made by a library the package calls (net/http, encoding/json, os).
LibError(lib, what) == [type |-> "libError", lib |-> lib, what |-> what]

----------------------------------------------------------------------------
(* Strings, URL escaping (net/url as box.go uses it) *)

\* net/url QueryEscape on one token: a space becomes "+", every other
\* character that is not unreserved becomes its %XX escape, a run of
\* unreserved characters stays as it is.
EscapeToken(c) ==
    CASE c = " " -> "+"
      [] c = "/" -> "%2F"
      [] c = "&" -> "%26"
      [] c = "=" -> "%3D"
      [] c = "?" -> "%3F"
      [] c = "%" -> "%25"
      [] OTHER -> c

\* url.QueryEscape(s)
QueryEscape(s) == [i \in 1..Len(s) |-> EscapeToken(s[i])]

\* urlEncode(s) of box.go
urlEncode(s) == QueryEscape(s)

\* A *url.Values: nil, or the key/value pairs in the order Encode writes
\* them (sorted by key).
NilParams == [isNil |-> TRUE]

Params(pairs) == [isNil |-> FALSE, pairs |-> pairs]

RECURSIVE EncodePairs(_)
\* url.Values.Encode(): key=value pairs, both escaped, joined by "&"
EncodePairs(pairs) ==
    IF pairs = <<>> THEN <<>>
    ELSE LET kv == QueryEscape(pairs[1][1]) \o <<"=">> \o QueryEscape(pairs[1][2])
         IN  IF Len(pairs) = 1 THEN kv
             ELSE kv \o <<"&">> \o EncodePairs(Tail(pairs))

\* the rawurl doRequest builds (box.go lines 89-94)
rawURL(apiurl, path, params) ==
    IF params.isNil
    THEN apiurl \o <<"/">> \o urlEncode(path)
    ELSE apiurl \o <<"/">> \o urlEncode(path) \o <<"?">> \o EncodePairs(params.pairs)

\* The tokens url.Parse rejects wherever they occur: a control character
\* and a percent sign that starts no escape.
BadURLTokens == {"\n", "%"}

\* http.NewRequest(method, rawurl, body): the error it returns.  It fails on
\* an invalid method and on a URL that does not parse.
NewRequestErr(method, rawurl) ==
    IF method \notin {"GET", "POST", "PUT", "DELETE"}
       \/ \E i \in 1..Len(rawurl) : rawurl[i] \in BadURLTokens
    THEN LibError("net/http", "NewRequest")
    ELSE NoErr

RECURSIVE Base(_)
\* filepath.Base(path): the last element of the path, "." for the empty path
Base(path) ==
    IF path = <<>> THEN <<".">>
    ELSE IF path[Len(path)] = "/"
         THEN IF Len(path) = 1 THEN <<"/">> ELSE Base(SubSeq(path, 1, Len(path) - 1))
         ELSE IF \E i \in 1..Len(path) : path[i] = "/"
              THEN LET k == CHOOSE i \in 1..Len(path) :
                                /\ path[i] = "/"
                                /\ \A j \in (i + 1)..Len(path) : path[j] # "/"
                   IN  SubSeq(path, k + 1, Len(path))
              ELSE path

----------------------------------------------------------------------------
(* JSON values and the resource structs (entity.go, file.go, folder.go) *)

\* A key the JSON object does not hold.
JAbsent == [t |-> "absent"]

JNull == [t |-> "null"]

\* A JSON number (no field of the modelled structs takes one).
JNum == [t |-> "num"]

JStr(s) == [t |-> "str", s |-> s]

\* A JSON object with the keys of an Entity.
JEntity(id, name) == [t |-> "obj", id |-> id, name |-> name]

JArr(items) == [t |-> "arr", items |-> items]

\* A JSON object with the keys the modelled structs and UploadFile read.
JDoc(id, name, par, entries) ==
    [t |-> "obj", id |-> id, name |-> name, parent |-> par, entries |-> entries]

\* Byte slices: nil, bytes that are no valid JSON text, a JSON text.
NilBytes == [t |-> "nil"]

BadJSON == [t |-> "bad"]

JSONBytes(doc) == [t |-> "json", doc |-> doc]

\* A nil pointer and a pointer to a value.
NilPtr == [isNil |-> TRUE]

Ptr(v) == [isNil |-> FALSE, v |-> v]

\* Entity (entity.go): the fields Id and Name.
Entity(id, name) == [Id |-> id, Name |-> name]

\* File (file.go) and Folder (folder.go): the fields Id, Name and Parent.
Item(id, name, par) == [Id |-> id, Name |-> name, Parent |-> par]

\* A JSON number with its value.
JInt(n) == [t |-> "num", n |-> n]

JBool(b) == [t |-> "bool", b |-> b]

\* A JSON object with the keys of a Collection.
JCollection(count, entries) == [t |-> "obj", total_count |-> count, entries |-> entries]

\* The JSON object of a folder: the keys of JDoc and item_collection.
JFolderDoc(id, name, par, ic) ==
    [t |-> "obj", id |-> id, name |-> name, parent |-> par, entries |-> JAbsent,
     item_collection |-> ic]

\* A nil slice and a slice with elements (possibly none).
NilSlice == [isNil |-> TRUE]

Slice(elems) == [isNil |-> FALSE, elems |-> elems]

\* Collection (entity.go): the fields Count and Entry.
Collection(count, entry) == [Count |-> count, Entry |-> entry]

\* Folder (folder.go) with its item collection: Id, Name, Parent and
\* ItemCollection.
Folder(id, name, par, ic) ==
    [Id |-> id, Name |-> name, Parent |-> par, ItemCollection |-> ic]

\* A byte that is no valid UTF-8 and the replacement character U+FFFD.
InvalidByte == "0xFF"

ReplacementChar == "U+FFFD"

\* encoding/json writes a string coerced to valid UTF-8: every invalid
\* byte is replaced by U+FFFD.
Utf8Coerce(s) ==
    [i \in 1..Len(s) |-> IF s[i] = InvalidByte THEN ReplacementChar ELSE s[i]]

\* json.Marshal of a string field tagged omitempty
MarshalStr(s) == IF s = <<>> THEN JAbsent ELSE JStr(Utf8Coerce(s))

\* json.Marshal of an int and of a bool field tagged omitempty
MarshalInt(n) == IF n = 0 THEN JAbsent ELSE JInt(n)

MarshalBool(b) == IF b THEN JBool(TRUE) ELSE JAbsent

\* json.Marshal of a []Entity field tagged omitempty: a slice without
\* elements, nil or not, is left out.
MarshalEntries(sl) ==
    IF sl.isNil \/ Len(sl.elems) = 0
    THEN JAbsent
    ELSE JArr([i \in 1..Len(sl.elems) |->
                  JEntity(MarshalStr(sl.elems[i].Id), MarshalStr(sl.elems[i].Name))])

\* json.Marshal of a *Collection field tagged omitempty
MarshalCollectionPtr(p) ==
    IF p.isNil THEN JAbsent
    ELSE JCollection(MarshalInt(p.v.Count), MarshalEntries(p.v.Entry))

\* json.Marshal(File{...}) / json.Marshal(Folder{...}): every field is
\* tagged omitempty, so an empty string and a nil pointer are left out.
Marshal(f) ==
    LET par == IF f.Parent.isNil THEN JAbsent
               ELSE JEntity(MarshalStr(f.Parent.v.Id), MarshalStr(f.Parent.v.Name))
    IN  IF "ItemCollection" \in DOMAIN f
        THEN JSONBytes(JFolderDoc(MarshalStr(f.Id), MarshalStr(f.Name), par,
                                  MarshalCollectionPtr(f.ItemCollection)))
        ELSE JSONBytes(JDoc(MarshalStr(f.Id), MarshalStr(f.Name), par, JAbsent))

\* encoding/json decoding into a string field: a string is stored, null and
\* an absent key leave the field alone, any other value is a type error
\* that leaves the field alone.
DecodeStr(jv, old) == IF jv.t = "str" THEN jv.s ELSE old

StrMismatch(jv) == jv.t \notin {"absent", "null", "str"}

\* encoding/json decoding into a *Entity field: an object is decoded into
\* the Entity the pointer holds (a new zero Entity if it is nil), null sets
\* the pointer to nil, an absent key leaves it alone.
DecodeEntityPtr(jv, old) ==
    CASE jv.t = "obj" ->
            LET e == IF old.isNil THEN Entity(<<>>, <<>>) ELSE old.v
            IN  Ptr(Entity(DecodeStr(jv.id, e.Id), DecodeStr(jv.name, e.Name)))
      [] jv.t = "null" -> NilPtr
      [] OTHER -> old

PtrMismatch(jv) ==
    \/ jv.t \notin {"absent", "null", "obj"}
    \/ jv.t = "obj" /\ (StrMismatch(jv.id) \/ StrMismatch(jv.name))

\* encoding/json decoding into an int field.
DecodeInt(jv, old) == IF jv.t = "num" THEN jv.n ELSE old

IntMismatch(jv) == jv.t \notin {"absent", "null", "num"}

\* encoding/json decoding into a []Entity field: an array gives a slice of
\* its length (empty but not nil for []), each element decoded into the
\* element the slice already holds at that index or into a zero Entity;
\* null gives the nil slice; an absent key leaves the field alone.
DecodeEntries(jv, old) ==
    CASE jv.t = "arr" ->
            Slice([i \in 1..Len(jv.items) |->
                      LET e == IF ~old.isNil /\ i <= Len(old.elems)
                               THEN old.elems[i] ELSE Entity(<<>>, <<>>)
                      IN  Entity(DecodeStr(jv.items[i].id, e.Id),
                                 DecodeStr(jv.items[i].name, e.Name))])
      [] jv.t = "null" -> NilSlice
      [] OTHER -> old

EntriesMismatch(jv) == jv.t \notin {"absent", "null", "arr"}

\* encoding/json decoding into a *Collection field: an object is decoded
\* into the Collection the pointer holds (a new zero Collection if it is
\* nil), null sets the pointer to nil, an absent key leaves it alone.
DecodeCollectionPtr(jv, old) ==
    CASE jv.t = "obj" ->
            LET c == IF old.isNil THEN Collection(0, NilSlice) ELSE old.v
            IN  Ptr(Collection(DecodeInt(jv.total_count, c.Count),
                               DecodeEntries(jv.entries, c.Entry)))
      [] jv.t = "null" -> NilPtr
      [] OTHER -> old

CollectionMismatch(jv) ==
    \/ jv.t \notin {"absent", "null", "obj"}
    \/ jv.t = "obj" /\ (IntMismatch(jv.total_count) \/ EntriesMismatch(jv.entries))

\* The value of a key of a JSON object.
Key(doc, k) == IF k \in DOMAIN doc THEN doc[k] ELSE JAbsent

\* json.Unmarshal that first resets the target to its zero value.
UnmarshalReset(data, f) ==
    IF data.t # "json" \/ data.doc.t # "obj"
    THEN [v |-> f, err |-> LibError("encoding/json", "Unmarshal")]
    ELSE [v |-> Item(DecodeStr(data.doc.id, <<>>),
                     DecodeStr(data.doc.name, <<>>),
                     DecodeEntityPtr(data.doc.parent, NilPtr)),
          err |-> IF StrMismatch(data.doc.id) \/ StrMismatch(data.doc.name)
                     \/ PtrMismatch(data.doc.parent)
                  THEN LibError("encoding/json", "UnmarshalTypeError")
                  ELSE NoErr]

\* json.Unmarshal(data, &f) for a File or Folder f: [v, err], v the struct
\* afterwards (the item collection of a Folder is decoded where the Folder
\* is modelled with it).  Invalid JSON (also nil or empty data) and a JSON text that
\* is no object fail and leave f alone; otherwise every key is decoded
\* into its field, a mismatched value is skipped and reported at the end.
Unmarshal(data, f) ==
    IF data.t # "json" \/ data.doc.t # "obj"
    THEN [v |-> f, err |-> LibError("encoding/json", "Unmarshal")]
    ELSE [v |-> IF "ItemCollection" \in DOMAIN f
                THEN Folder(DecodeStr(data.doc.id, f.Id),
                            DecodeStr(data.doc.name, f.Name),
                            DecodeEntityPtr(data.doc.parent, f.Parent),
                            DecodeCollectionPtr(Key(data.doc, "item_collection"),
                                                f.ItemCollection))
                ELSE Item(DecodeStr(data.doc.id, f.Id),
                          DecodeStr(data.doc.name, f.Name),
                          DecodeEntityPtr(data.doc.parent, f.Parent)),
          err |-> IF \/ StrMismatch(data.doc.id) \/ StrMismatch(data.doc.name)
                     \/ PtrMismatch(data.doc.parent)
                     \/ /\ "ItemCollection" \in DOMAIN f
                        /\ CollectionMismatch(Key(data.doc, "item_collection"))
                  THEN LibError("encoding/json", "UnmarshalTypeError")
                  ELSE NoErr]

----------------------------------------------------------------------------
(* BoxTime and BoxLock (entity.go) *)

\* A time.Time: the instant as the day since 1970-01-01 (UTC), the second
\* of that day and the nanosecond of that second, and the offset of its
\* location from UTC in seconds.
Time(day, sod, nsec, off) == [day |-> day, sod |-> sod, nsec |-> nsec, off |-> off]

\* The day of 0001-01-01, of 0000-01-01 and of 9999-12-31.
ZeroDay == -719162

MinDay == -719528

MaxDay == 2932896

\* time.Time{}: 0001-01-01T00:00:00Z
ZeroTime == Time(ZeroDay, 0, 0, 0)

\* The instant a time denotes (what Time.Equal compares).
Instant(t) == [day |-> t.day, sod |-> t.sod, nsec |-> t.nsec]

\* Go's integer division, which truncates toward zero.
Quo(a, b) == IF a >= 0 THEN a \div b ELSE -((-a) \div b)

\* What the digits of a time in the layout RFC3339 say: the day and the
\* second of the day on the wall clock, the zone offset in minutes.
TimeText(day, sod, zone) == [day |-> day, sod |-> sod, zone |-> zone]

\* Time.Format(time.RFC3339): the wall clock of the location, without the
\* fraction of the second, and the offset cut to whole minutes.
Format(t) ==
    LET w == t.sod + t.off
    IN  TimeText(t.day + (w \div 86400), w % 86400, Quo(t.off, 60))

\* time.ParseInLocation that takes the wall clock for UTC.
ParseIgnoreZone(s) ==
    IF Len(s) # 1 \/ s[1].day \notin MinDay..MaxDay
    THEN [v |-> ZeroTime, err |-> LibError("time", "Parse")]
    ELSE [v |-> Time(s[1].day, s[1].sod, 0, 0), err |-> NoErr]

\* time.ParseInLocation(time.RFC3339, s, time.UTC): [v, err].  The layout
\* has a year of four digits, so a text whose year is outside 0..9999
\* does not parse; the result has the offset the text gives.
ParseInLocation(s) ==
    IF Len(s) # 1 \/ s[1].day \notin MinDay..MaxDay
    THEN [v |-> ZeroTime, err |-> LibError("time", "Parse")]
    ELSE LET u == s[1].sod - s[1].zone * 60
         IN  [v |-> Time(s[1].day + (u \div 86400), u % 86400, 0, s[1].zone * 60),
              err |-> NoErr]

\* BoxTime.MarshalJSON: the JSON string of the formatted time.
MarshalJSON(bt) == JStr(<<Format(bt)>>)

\* BoxTime.UnmarshalJSON(data) on the BoxTime bt: [v, err], v the BoxTime
\* afterwards.  null leaves it alone; a value that is no string and a
\* string that does not parse fail; the zero instant is stored as
\* time.Time{}.
UnmarshalJSON(data, bt) ==
    IF data.t = "null"
    THEN [v |-> bt, err |-> NoErr]
    ELSE IF data.t # "str"
         THEN [v |-> bt, err |-> LibError("encoding/json", "UnmarshalTypeError")]
         ELSE LET p == ParseInLocation(data.s)
              IN  IF p.err # NoErr
                  THEN [v |-> bt, err |-> p.err]
                  ELSE IF Instant(p.v) = Instant(ZeroTime)
                       THEN [v |-> ZeroTime, err |-> NoErr]
                       ELSE [v |-> p.v, err |-> NoErr]

\* BoxLock: the fields Id, CreatedAt and Download.
BoxLock(id, createdAt, download) ==
    [Id |-> id, CreatedAt |-> createdAt, Download |-> download]

\* A JSON object with the keys of a BoxLock.
JBoxLock(id, createdAt, download) ==
    [t |-> "obj", id |-> id, created_at |-> createdAt, is_download_prevented |-> download]

\* json.Marshal(BoxLock{...}): a nil *BoxTime is left out, another one is
\* written by BoxTime.MarshalJSON.
MarshalBoxLock(l) ==
    JSONBytes(JBoxLock(MarshalStr(l.Id),
                       IF l.CreatedAt.isNil THEN JAbsent ELSE MarshalJSON(l.CreatedAt.v),
                       MarshalBool(l.Download)))

\* encoding/json decoding into a bool field.
DecodeBool(jv, old) == IF jv.t = "bool" THEN jv.b ELSE old

BoolMismatch(jv) == jv.t \notin {"absent", "null", "bool"}

\* encoding/json decoding into a *BoxTime field: [v, err].  null sets the
\* pointer to nil, an absent key leaves it alone, any other value goes to
\* UnmarshalJSON of the BoxTime the pointer holds (a new zero one if nil).
DecodeTimePtr(jv, old) ==
    CASE jv.t = "absent" -> [v |-> old, err |-> NoErr]
      [] jv.t = "null" -> [v |-> NilPtr, err |-> NoErr]
      [] OTHER -> LET u == UnmarshalJSON(jv, IF old.isNil THEN ZeroTime ELSE old.v)
                  IN  [v |-> Ptr(u.v), err |-> u.err]

\* json.Unmarshal(data, &l) for a BoxLock l: [v, err].
UnmarshalBoxLock(data, l) ==
    IF data.t # "json" \/ data.doc.t # "obj"
    THEN [v |-> l, err |-> LibError("encoding/json", "Unmarshal")]
    ELSE LET c == DecodeTimePtr(data.doc.created_at, l.CreatedAt)
         IN  [v |-> BoxLock(DecodeStr(data.doc.id, l.Id), c.v,
                            DecodeBool(data.doc.is_download_prevented, l.Download)),
              err |-> IF c.err # NoErr THEN c.err
                      ELSE IF StrMismatch(data.doc.id)
                                \/ BoolMismatch(data.doc.is_download_prevented)
                           THEN LibError("encoding/json", "UnmarshalTypeError")
                           ELSE NoErr]

\* unmarshal(marshal(v)) into a new zero value of the type of v: [v, err].
RoundTrip(x) ==
    CASE x.kind = "File" -> Unmarshal(Marshal(x.v), Item(<<>>, <<>>, NilPtr))
      [] x.kind = "Folder" -> Unmarshal(Marshal(x.v), Folder(<<>>, <<>>, NilPtr, NilPtr))
      [] x.kind = "BoxLock" ->
             UnmarshalBoxLock(MarshalBoxLock(x.v), BoxLock(<<>>, NilPtr, FALSE))
      [] x.kind = "BoxTime" -> UnmarshalJSON(MarshalJSON(x.v), ZeroTime)

----------------------------------------------------------------------------
(* box.go: the client, doRequest, getResponse *)

\* NewBox(): the client with the two base URLs, no app info and no token.
NewBox ==
    [APIURL |-> <<"https://api.box.com/2.0">>,
     UPLOADURL |-> <<"https://upload.box.com/api/2.0">>,
     config |-> NilPtr,
     token |-> NilPtr]

\* An oauth2.Token with the fields the package sets.
Token(access, type) == [AccessToken |-> access, TokenType |-> type]

\* Box.SetAppInfo: box.config is the oauth2 configuration of the app.
SetAppInfo(b, clientid, clientsecret) ==
    [b EXCEPT !.config = Ptr([ClientID |-> clientid, ClientSecret |-> clientsecret])]

\* SetAccessToken that keeps a token the client already holds.
SetAccessTokenKeep(b, accesstoken) ==
    IF b.token.isNil THEN [b EXCEPT !.token = Ptr(Token(accesstoken, <<>>))] ELSE b

\* Box.SetAccessToken: box.token = &oauth2.Token{AccessToken: accesstoken}
SetAccessToken(b, accesstoken) ==
    [b EXCEPT !.token = Ptr(Token(accesstoken, <<>>))]

\* Box.Auth: ex is the outcome of exchanging the code the user typed:
\* an error, or the token the transport holds.  On an error the client is
\* left alone, otherwise the token is stored with TokenType "Bearer".
Auth(b, ex) ==
    IF ex.failed
    THEN [box |-> b, err |-> LibError("oauth2", "NewTransportWithCode")]
    ELSE [box |-> [b EXCEPT !.token = Ptr(Token(ex.access, <<"Bearer">>))], err |-> NoErr]

\* Box.client(): a new transport holding box.token; the requests made
\* through it carry that token.
client(b) == [token |-> b.token]

\* An HTTP request as handed to the client's Do.
Request(method, url, body, token) ==
    [method |-> method, url |-> url, body |-> body, token |-> token]

\* What the HTTP client answers: a transport error, or a response with a
\* status code and a body that can or cannot be read to its end.
TransportError == [t |-> "transportError"]

Response(status, body, readOK) ==
    [t |-> "response", status |-> status, body |-> body, readOK |-> readOK]

\* getResponse(r): the body for the status codes 200, 201 and 202, an
\* error made with errors.New for every other status code.
getResponse(r) ==
    IF ~r.readOK
    THEN [b |-> NilBytes, err |-> LibError("io/ioutil", "ReadAll")]
    ELSE IF r.status \in {200, 201, 202}
         THEN [b |-> r.body, err |-> NoErr]
         ELSE [b |-> NilBytes, err |-> ErrorString("unexpected HTTP status code %d", r.status)]

\* doRequest that sends the request a second time when the first try fails.
doRequestRetry(b, method, path, params, reqBody, reply) ==
    LET rawurl == rawURL(b.APIURL, path, params)
        nerr == NewRequestErr(method, rawurl)
        request == Request(method, rawurl, reqBody, client(b).token)
    IN  IF nerr # NoErr
        THEN [body |-> NilBytes, err |-> nerr, wire |-> <<>>]
        ELSE IF reply.t = "transportError"
             THEN [body |-> NilBytes, err |-> LibError("net/http", "Do"),
                   wire |-> <<request, request>>]
             ELSE LET r == getResponse(reply)
                  IN  [body |-> r.b, err |-> r.err,
                       wire |-> IF r.err # NoErr THEN <<request, request>> ELSE <<request>>]

\* Box.doRequest(method, path, params, reqBody), reply being what the HTTP
\* client answers: [body, err, wire], wire the requests handed to Do.
\* An empty reqBody gives a request without a body reader.
doRequest(b, method, path, params, reqBody, reply) ==
    LET rawurl == rawURL(b.APIURL, path, params)
        nerr == NewRequestErr(method, rawurl)
        request == Request(method, rawurl,
                           IF reqBody.t = "nil" THEN NilBytes ELSE reqBody,
                           client(b).token)
    IN  IF nerr # NoErr
        THEN [body |-> NilBytes, err |-> nerr, wire |-> <<>>]
        ELSE IF reply.t = "transportError"
             THEN [body |-> NilBytes, err |-> LibError("net/http", "Do"),
                   wire |-> <<request>>]
             ELSE LET r == getResponse(reply)
                  IN  IF r.err # NoErr
                      THEN [body |-> NilBytes, err |-> r.err, wire |-> <<request>>]
                      ELSE [body |-> r.b, err |-> NoErr, wire |-> <<request>>]

----------------------------------------------------------------------------
(* file.go, folder.go: the operations.  Each takes the client, the        *)
(* receiver f, its arguments and the HTTP client's answer, and yields     *)
(* [recv, parent, ret, err, wire]: the receiver and the parent afterwards,*)
(* the struct returned (a nil pointer if none), the error returned and    *)
(* the requests handed to the HTTP client.                                *)

Result(f, par, ret, err, wire) ==
    [recv |-> f, parent |-> par, ret |-> ret, err |-> err, wire |-> wire]

\* File.Get
FileGet(b, f, reply) ==
    IF f.Id = <<>>
    THEN Result(f, NilPtr, NilPtr, ErrorString("Empty id while using Get", 0), <<>>)
    ELSE LET d == doRequest(b, "GET", <<"files", "/">> \o f.Id, NilParams, NilBytes, reply)
         IN  IF d.err = NoErr
             THEN LET u == Unmarshal(d.body, f)
                  IN  Result(u.v, NilPtr, NilPtr, u.err, d.wire)
             ELSE Result(f, NilPtr, NilPtr, d.err, d.wire)

\* File.Delete
FileDelete(b, f, reply) ==
    IF f.Id = <<>>
    THEN Result(f, NilPtr, NilPtr, ErrorString("Empty id while using Delete", 0), <<>>)
    ELSE LET d == doRequest(b, "DELETE", <<"files", "/">> \o f.Id, NilParams, NilBytes, reply)
         IN  Result(f, NilPtr, NilPtr, d.err, d.wire)

\* File.Rename
FileRename(b, f, name, reply) ==
    IF f.Id = <<>>
    THEN Result(f, NilPtr, NilPtr, ErrorString("Empty id while using Rename", 0), <<>>)
    ELSE LET file == Item(<<>>, name, NilPtr)
             d == doRequest(b, "PUT", <<"files", "/">> \o f.Id, NilParams, Marshal(file), reply)
         IN  IF d.err = NoErr
             THEN LET u == Unmarshal(d.body, f)
                  IN  Result(u.v, NilPtr, NilPtr, u.err, d.wire)
             ELSE Result(f, NilPtr, NilPtr, d.err, d.wire)

\* File.Move
FileMove(b, f, par, reply) ==
    IF f.Id = <<>> \/ par.Id = <<>>
    THEN Result(f, Ptr(par), NilPtr, ErrorString("Empty id while using Move", 0), <<>>)
    ELSE LET file == Item(<<>>, <<>>, Ptr(Entity(par.Id, <<>>)))
             d == doRequest(b, "PUT", <<"files", "/">> \o f.Id, NilParams, Marshal(file), reply)
         IN  IF d.err = NoErr
             THEN LET u == Unmarshal(d.body, f)
                  IN  Result(u.v, Ptr(par), NilPtr, u.err, d.wire)
             ELSE Result(f, Ptr(par), NilPtr, d.err, d.wire)

\* File.Copy that decodes the response into the receiver.
FileCopyIntoReceiver(b, f, par, reply) ==
    IF f.Id = <<>> \/ par.Id = <<>>
    THEN Result(f, Ptr(par), NilPtr, ErrorString("Empty id while using Copy", 0), <<>>)
    ELSE LET file == Item(<<>>, <<>>, Ptr(Entity(par.Id, <<>>)))
             d == doRequest(b, "POST", <<"files", "/">> \o f.Id \o <<"/", "copy">>,
                            NilParams, Marshal(file), reply)
         IN  IF d.err = NoErr
             THEN LET u == Unmarshal(d.body, f)
                  IN  Result(u.v, Ptr(par), Ptr(u.v), u.err, d.wire)
             ELSE Result(f, Ptr(par), NilPtr, d.err, d.wire)

\* File.Copy
FileCopy(b, f, par, reply) ==
    IF f.Id = <<>> \/ par.Id = <<>>
    THEN Result(f, Ptr(par), NilPtr, ErrorString("Empty id while using Copy", 0), <<>>)
    ELSE LET file == Item(<<>>, <<>>, Ptr(Entity(par.Id, <<>>)))
             d == doRequest(b, "POST", <<"files", "/">> \o f.Id \o <<"/", "copy">>,
                            NilParams, Marshal(file), reply)
         IN  IF d.err = NoErr
             THEN LET u == Unmarshal(d.body, file)
                  IN  Result(f, Ptr(par), Ptr(u.v), u.err, d.wire)
             ELSE Result(f, Ptr(par), NilPtr, d.err, d.wire)

\* The multipart body UploadFile writes: the form file "filename" with the
\* given file name and content, and the form field parent_id.
Multipart(filename, content, parentId) ==
    [t |-> "multipart", filename |-> filename, content |-> content, parent_id |-> parentId]

\* The decoding of the upload response (file.go lines 426-444): the body
\* must be a JSON object whose "entries" is an array of exactly one
\* element, which is decoded into f.
UploadDecode(respBody, f) ==
    IF respBody.t # "json" \/ respBody.doc.t # "obj"
    THEN [v |-> f, err |-> LibError("encoding/json", "Unmarshal")]
    ELSE LET entries == respBody.doc.entries
         IN  CASE entries.t = "absent" ->
                      [v |-> f, err |-> LibError("encoding/json", "Unmarshal")]
               [] entries.t = "null" ->
                      [v |-> f, err |-> ErrorString("Not enough returned argument", 0)]
               [] entries.t = "arr" ->
                      IF Len(entries.items) # 1
                      THEN [v |-> f, err |-> ErrorString("Not enough returned argument", 0)]
                      ELSE Unmarshal(JSONBytes(entries.items[1]), f)
               [] OTHER ->
                      [v |-> f, err |-> LibError("encoding/json", "UnmarshalTypeError")]

\* File.UploadFile that always names the upload after the local path.
FileUploadFileBaseName(b, f, path, par, fs, reply) ==
    IF ~fs.openOK
    THEN Result(f, Ptr(par), NilPtr, LibError("os", "Open"), <<>>)
    ELSE LET body == Multipart(Base(path), IF fs.copyOK THEN "whole" ELSE "partial", par.Id)
             rawurl == b.UPLOADURL \o <<"/", "files", "/", "content">>
             request == Request("POST", rawurl, body, client(b).token)
         IN  IF reply.t = "transportError"
             THEN Result(f, Ptr(par), NilPtr, LibError("net/http", "Do"), <<request>>)
             ELSE LET r == getResponse(reply)
                  IN  IF r.err # NoErr
                      THEN Result(f, Ptr(par), NilPtr, r.err, <<request>>)
                      ELSE LET u == UploadDecode(r.b, f)
                           IN  Result(u.v, Ptr(par), NilPtr, u.err, <<request>>)

\* File.UploadFile (file.go lines 369-445).  fs tells whether the local
\* file opens and whether reading it through succeeds.  The error of
\* io.Copy is overwritten by the next assignment to err; writing into the
\* in-memory buffer (CreateFormFile, WriteField, Close) does not fail.
\* The upload URL is not escaped.
FileUploadFile(b, f, path, par, fs, reply) ==
    IF ~fs.openOK
    THEN Result(f, Ptr(par), NilPtr, LibError("os", "Open"), <<>>)
    ELSE LET name == IF f.Name = <<>> THEN Base(path) ELSE f.Name
             body == Multipart(name, IF fs.copyOK THEN "whole" ELSE "partial", par.Id)
             rawurl == b.UPLOADURL \o <<"/", "files", "/", "content">>
             nerr == NewRequestErr("POST", rawurl)
             request == Request("POST", rawurl, body, client(b).token)
         IN  IF nerr # NoErr
             THEN Result(f, Ptr(par), NilPtr, nerr, <<>>)
             ELSE IF reply.t = "transportError"
                  THEN Result(f, Ptr(par), NilPtr, LibError("net/http", "Do"), <<request>>)
                  ELSE LET r == getResponse(reply)
                       IN  IF r.err # NoErr
                           THEN Result(f, Ptr(par), NilPtr, r.err, <<request>>)
                           ELSE LET u == UploadDecode(r.b, f)
                                IN  Result(u.v, Ptr(par), NilPtr, u.err, <<request>>)

\* Folder.Create
FolderCreate(b, f, name, reply) ==
    IF f.Id = <<>>
    THEN Result(f, NilPtr, NilPtr, ErrorString("Empty id while using Create", 0), <<>>)
    ELSE LET fold == Item(<<>>, name, Ptr(Entity(f.Id, <<>>)))
             d == doRequest(b, "POST", <<"folders">>, NilParams, Marshal(fold), reply)
         IN  IF d.err = NoErr
             THEN LET u == Unmarshal(d.body, fold)
                  IN  Result(f, NilPtr, Ptr(u.v), u.err, d.wire)
             ELSE Result(f, NilPtr, NilPtr, d.err, d.wire)

\* Folder.Get without the check of the Id.
FolderGetNoGuard(b, f, reply) ==
    LET d == doRequest(b, "GET", <<"folders", "/">> \o f.Id, NilParams, NilBytes, reply)
    IN  IF d.err = NoErr
        THEN LET u == Unmarshal(d.body, f)
             IN  Result(u.v, NilPtr, NilPtr, u.err, d.wire)
        ELSE Result(f, NilPtr, NilPtr, d.err, d.wire)

\* Folder.Get
FolderGet(b, f, reply) ==
    IF f.Id = <<>>
    THEN Result(f, NilPtr, NilPtr, ErrorString("Empty id while using Get", 0), <<>>)
    ELSE LET d == doRequest(b, "GET", <<"folders", "/">> \o f.Id, NilParams, NilBytes, reply)
         IN  IF d.err = NoErr
             THEN LET u == Unmarshal(d.body, f)
                  IN  Result(u.v, NilPtr, NilPtr, u.err, d.wire)
             ELSE Result(f, NilPtr, NilPtr, d.err, d.wire)

\* Folder.Delete that sends no query parameters.
FolderDeleteNoParams(b, f, reply) ==
    IF f.Id = <<>>
    THEN Result(f, NilPtr, NilPtr, ErrorString("Empty id while using Delete", 0), <<>>)
    ELSE LET d == doRequest(b, "DELETE", <<"folders", "/">> \o f.Id, NilParams, NilBytes, reply)
         IN  Result(f, NilPtr, NilPtr, d.err, d.wire)

\* Folder.Delete: the request carries the query recursive=true.
FolderDelete(b, f, reply) ==
    IF f.Id = <<>>
    THEN Result(f, NilPtr, NilPtr, ErrorString("Empty id while using Delete", 0), <<>>)
    ELSE LET d == doRequest(b, "DELETE", <<"folders", "/">> \o f.Id,
                            Params(<< <<(<<"recursive">>), (<<"true">>)>> >>), NilBytes, reply)
         IN  Result(f, NilPtr, NilPtr, d.err, d.wire)

\* Folder.Rename that returns nil when decoding the response fails.
FolderRenameSwallow(b, f, name, reply) ==
    IF f.Id = <<>>
    THEN Result(f, NilPtr, NilPtr, ErrorString("Empty id while using Rename", 0), <<>>)
    ELSE LET fold == Item(<<>>, name, NilPtr)
             d == doRequest(b, "PUT", <<"folders", "/">> \o f.Id, NilParams, Marshal(fold), reply)
         IN  IF d.err = NoErr
             THEN LET u == Unmarshal(d.body, f)
                  IN  Result(u.v, NilPtr, NilPtr, NoErr, d.wire)
             ELSE Result(f, NilPtr, NilPtr, d.err, d.wire)

\* Folder.Rename
FolderRename(b, f, name, reply) ==
    IF f.Id = <<>>
    THEN Result(f, NilPtr, NilPtr, ErrorString("Empty id while using Rename", 0), <<>>)
    ELSE LET fold == Item(<<>>, name, NilPtr)
             d == doRequest(b, "PUT", <<"folders", "/">> \o f.Id, NilParams, Marshal(fold), reply)
         IN  IF d.err = NoErr
             THEN LET u == Unmarshal(d.body, f)
                  IN  Result(u.v, NilPtr, NilPtr, u.err, d.wire)
             ELSE Result(f, NilPtr, NilPtr, d.err, d.wire)

\* Folder.Move
FolderMove(b, f, par, reply) ==
    IF f.Id = <<>> \/ par.Id = <<>>
    THEN Result(f, Ptr(par), NilPtr, ErrorString("Empty id while using Move", 0), <<>>)
    ELSE LET fold == Item(<<>>, <<>>, Ptr(Entity(par.Id, <<>>)))
             d == doRequest(b, "PUT", <<"folders", "/">> \o f.Id, NilParams, Marshal(fold), reply)
         IN  IF d.err = NoErr
             THEN LET u == Unmarshal(d.body, f)
                  IN  Result(u.v, Ptr(par), NilPtr, u.err, d.wire)
             ELSE Result(f, Ptr(par), NilPtr, d.err, d.wire)

\* Folder.Copy
FolderCopy(b, f, par, reply) ==
    IF f.Id = <<>> \/ par.Id = <<>>
    THEN Result(f, Ptr(par), NilPtr, ErrorString("Empty id while using Copy", 0), <<>>)
    ELSE LET fold == Item(<<>>, <<>>, Ptr(Entity(par.Id, <<>>)))
             d == doRequest(b, "POST", <<"folders", "/">> \o f.Id \o <<"/", "copy">>,
                            NilParams, Marshal(fold), reply)
         IN  IF d.err = NoErr
             THEN LET u == Unmarshal(d.body, fold)
                  IN  Result(f, Ptr(par), Ptr(u.v), u.err, d.wire)
             ELSE Result(f, Ptr(par), NilPtr, d.err, d.wire)

\* Folder.Items: [recv, items, err, wire, panicked].  It calls Get when
\* f.ItemCollection is nil and returns f.ItemCollection.Entry, which is a
\* nil dereference (a panic) when the pointer is still nil after Get.
FolderItems(b, f, reply) ==
    IF f.ItemCollection.isNil
    THEN LET g == FolderGet(b, f, reply)
         IN  IF g.err # NoErr
             THEN [recv |-> g.recv, items |-> NilSlice, err |-> g.err, wire |-> g.wire,
                   panicked |-> FALSE]
             ELSE IF g.recv.ItemCollection.isNil
                  THEN [recv |-> g.recv, items |-> NilSlice, err |-> NoErr,
                        wire |-> g.wire, panicked |-> TRUE]
                  ELSE [recv |-> g.recv, items |-> g.recv.ItemCollection.v.Entry,
                        err |-> NoErr, wire |-> g.wire, panicked |-> FALSE]
    ELSE [recv |-> f, items |-> f.ItemCollection.v.Entry, err |-> NoErr, wire |-> <<>>,
          panicked |-> FALSE]

----------------------------------------------------------------------------
(* The inputs the callers and the server choose from *)

\* Ids: the empty Id, a plain one, one with a character that is escaped.
Ids == {<<>>, <<"7">>, <<"a", " ", "b">>}

\* The structs a caller constructs before the first call.
InitItems ==
    {Item(id, <<>>, NilPtr) : id \in Ids}
        \cup {Item(<<"7">>, <<"old">>, Ptr(Entity(<<"p0">>, <<"pn0">>)))}

\* The folders a caller passes as parent.
ParentFolders == {Item(<<>>, <<"dst">>, NilPtr), Item(<<"9">>, <<>>, NilPtr)}

\* The names given to Rename and Create.
NameArgs == {<<"new">>}

\* The local paths given to UploadFile.
Paths == {<<"dir", "/", "x.txt">>}

\* Whether the local file opens and can be read through.
FileSystems ==
    {[openOK |-> FALSE, copyOK |-> FALSE], [openOK |-> TRUE, copyOK |-> FALSE],
     [openOK |-> TRUE, copyOK |-> TRUE]}

\* The access tokens given to SetAccessToken.
AccessTokens == {<<"t1">>, <<"t2">>}

\* The outcomes of the code exchange of Auth.
Exchanges == {[failed |-> TRUE, access |-> <<>>], [failed |-> FALSE, access |-> <<"a1">>]}

\* The JSON objects a response body holds.
Docs ==
    { JDoc(JStr(<<"7">>), JStr(<<"n1">>), JEntity(JStr(<<"p">>), JStr(<<"pn">>)), JAbsent),
      JDoc(JStr(<<"7">>), JAbsent, JAbsent, JAbsent),
      JDoc(JAbsent, JStr(<<"n2">>), JNull, JAbsent),
      JDoc(JStr(<<"8">>), JAbsent, JEntity(JStr(<<"q">>), JAbsent), JAbsent),
      JDoc(JStr(<<"7">>), JNum, JAbsent, JAbsent),
      JDoc(JAbsent, JAbsent, JAbsent,
           JArr(<< JDoc(JStr(<<"5">>), JStr(<<"x.txt">>), JAbsent, JAbsent) >>)),
      JDoc(JAbsent, JAbsent, JAbsent, JArr(<<>>)) }

\* The bodies of the responses with a success status.
Bodies == {JSONBytes(d) : d \in Docs} \cup {BadJSON}

\* The status codes the server answers with besides 200; 418 is in no table.
OtherStatuses == {201, 204, 404, 409, 418}

\* What the HTTP client answers to a request.
Replies ==
    {TransportError, Response(200, BadJSON, FALSE)}
        \cup {Response(200, b, TRUE) : b \in Bodies}
        \cup {Response(s, JSONBytes(JDoc(JStr(<<"7">>), JAbsent, JAbsent, JAbsent)), TRUE) :
                  s \in OtherStatuses}

----------------------------------------------------------------------------
(* The state machine *)

\* The record of an API call: the operation, its argument, the answer of
\* the HTTP client, the struct and the error returned, the requests
\* handed to the HTTP client, the string returned, whether it panicked.
Outcome(op, arg, reply, ret, err, wire, str, panicked) ==
    [op |-> op, arg |-> arg, reply |-> reply, ret |-> ret, err |-> err,
     wire |-> wire, str |-> str, panicked |-> panicked]

NoReply == [t |-> "none"]

\* The record of a call that makes no request.
Plain(op, err, str, panicked) ==
    Outcome(op, <<>>, NoReply, NilPtr, err, <<>>, str, panicked)

Init ==
    /\ box = NewBox
    /\ recv \in {[kind |-> k, v |-> v] : k \in {"File", "Folder"}, v \in InitItems}
    /\ parent \in ParentFolders
    /\ last = Plain("NewBox", NoErr, <<>>, FALSE)
    /\ calls = 0
    /\ sent = 0
    /\ given = NilPtr
    /\ tstatus = MinStatus
    /\ tresults = <<>>

CallSetAppInfo ==
    /\ box' = SetAppInfo(box, <<"id">>, <<"secret">>)
    /\ last' = Plain("SetAppInfo", NoErr, <<>>, FALSE)
    /\ UNCHANGED <<recv, parent, calls, sent, given, tstatus, tresults>>

CallSetAccessToken ==
    \E t \in AccessTokens :
        /\ box' = SetAccessToken(box, t)
        /\ given' = Ptr(t)
        /\ last' = Plain("SetAccessToken", NoErr, <<>>, FALSE)
        /\ UNCHANGED <<recv, parent, calls, sent, tstatus, tresults>>

\* Auth needs the app info: it asks box.config for the URL to visit.
CallAuth ==
    /\ ~box.config.isNil
    /\ \E ex \in Exchanges :
        LET a == Auth(box, ex)
        IN  /\ box' = a.box
            /\ given' = IF ex.failed THEN given ELSE Ptr(ex.access)
            /\ last' = Plain("Auth", a.err, <<>>, FALSE)
    /\ UNCHANGED <<recv, parent, calls, sent, tstatus, tresults>>

\* Box.AccessToken(): box.token.AccessToken, a nil dereference (a panic)
\* when the client holds no token.
CallAccessToken ==
    /\ last' = IF box.token.isNil
               THEN Plain("AccessToken", NoErr, <<>>, TRUE)
               ELSE Plain("AccessToken", NoErr, box.token.v.AccessToken, FALSE)
    /\ UNCHANGED <<box, recv, parent, calls, sent, given, tstatus, tresults>>

\* A call of a resource operation with result res.  The operations are
\* called on a client whose app info is set (client() uses box.config).
CallOp(op, arg, reply, res) ==
    /\ calls < MaxCalls
    /\ ~box.config.isNil
    /\ recv' = [recv EXCEPT !.v = res.recv]
    /\ parent' = IF res.parent.isNil THEN parent ELSE res.parent.v
    /\ last' = Outcome(op, arg, reply, res.ret, res.err, res.wire, <<>>, FALSE)
    /\ calls' = calls + 1
    /\ sent' = sent + Len(res.wire)
    /\ UNCHANGED <<box, given, tstatus, tresults>>

CallFileGet ==
    /\ recv.kind = "File"
    /\ \E reply \in Replies : CallOp("File.Get", <<>>, reply, FileGet(box, recv.v, reply))

CallFileDelete ==
    /\ recv.kind = "File"
    /\ \E reply \in Replies : CallOp("File.Delete", <<>>, reply, FileDelete(box, recv.v, reply))

CallFileRename ==
    /\ recv.kind = "File"
    /\ \E reply \in Replies, name \in NameArgs :
           CallOp("File.Rename", name, reply, FileRename(box, recv.v, name, reply))

CallFileMove ==
    /\ recv.kind = "File"
    /\ \E reply \in Replies : CallOp("File.Move", <<>>, reply, FileMove(box, recv.v, parent, reply))

CallFileCopy ==
    /\ recv.kind = "File"
    /\ \E reply \in Replies : CallOp("File.Copy", <<>>, reply, FileCopy(box, recv.v, parent, reply))

CallFileUploadFile ==
    /\ recv.kind = "File"
    /\ \E reply \in Replies, path \in Paths, fs \in FileSystems :
           CallOp("File.UploadFile", path, reply,
                  FileUploadFile(box, recv.v, path, parent, fs, reply))

CallFolderCreate ==
    /\ recv.kind = "Folder"
    /\ \E reply \in Replies, name \in NameArgs :
           CallOp("Folder.Create", name, reply, FolderCreate(box, recv.v, name, reply))

CallFolderGet ==
    /\ recv.kind = "Folder"
    /\ \E reply \in Replies : CallOp("Folder.Get", <<>>, reply, FolderGet(box, recv.v, reply))

CallFolderDelete ==
    /\ recv.kind = "Folder"
    /\ \E reply \in Replies :
           CallOp("Folder.Delete", <<>>, reply, FolderDelete(box, recv.v, reply))

CallFolderRename ==
    /\ recv.kind = "Folder"
    /\ \E reply \in Replies, name \in NameArgs :
           CallOp("Folder.Rename", name, reply, FolderRename(box, recv.v, name, reply))

CallFolderMove ==
    /\ recv.kind = "Folder"
    /\ \E reply \in Replies :
           CallOp("Folder.Move", <<>>, reply, FolderMove(box, recv.v, parent, reply))

CallFolderCopy ==
    /\ recv.kind = "Folder"
    /\ \E reply \in Replies :
           CallOp("Folder.Copy", <<>>, reply, FolderCopy(box, recv.v, parent, reply))

Next ==
    \/ CallSetAppInfo
    \/ CallSetAccessToken
    \/ CallAuth
    \/ CallAccessToken
    \/ CallFileGet
    \/ CallFileDelete
    \/ CallFileRename
    \/ CallFileMove
    \/ CallFileCopy
    \/ CallFileUploadFile
    \/ CallFolderCreate
    \/ CallFolderGet
    \/ CallFolderDelete
    \/ CallFolderRename
    \/ CallFolderMove
    \/ CallFolderCopy

Spec == Init /\ [][Next]_vars

----------------------------------------------------------------------------
(* toError applied to every status code *)

InitToError ==
    /\ box = NewBox
    /\ recv = [kind |-> "File", v |-> Item(<<>>, <<>>, NilPtr)]
    /\ parent = Item(<<>>, <<>>, NilPtr)
    /\ last = Plain("NewBox", NoErr, <<>>, FALSE)
    /\ calls = 0
    /\ sent = 0
    /\ given = NilPtr
    /\ tstatus \in MinStatus..MaxStatus
    /\ tresults = <<>>

\* One more call toError(tstatus); its default case allocates a new value.
ApplyToError ==
    /\ Len(tresults) < MaxApply
    /\ tresults' = Append(tresults, toError(tstatus, Len(tresults) + 1))
    /\ UNCHANGED <<box, recv, parent, last, calls, sent, given, tstatus>>

NextToError == ApplyToError

SpecToError == InitToError /\ [][NextToError]_vars

----------------------------------------------------------------------------
(* Folder.Items on folders with and without an item collection *)

\* The item collections a folder holds before the first call.
InitCollections ==
    {NilPtr, Ptr(Collection(0, NilSlice)),
     Ptr(Collection(1, Slice(<<Entity(<<"5">>, <<"x.txt">>)>>)))}

\* The JSON objects the server answers a folder request with.
FolderDocs ==
    { JFolderDoc(JStr(<<"7">>), JStr(<<"n1">>), JAbsent,
                 JCollection(JInt(1), JArr(<<JEntity(JStr(<<"6">>), JStr(<<"y">>))>>))),
      JFolderDoc(JStr(<<"7">>), JAbsent, JAbsent, JCollection(JInt(0), JArr(<<>>))),
      JFolderDoc(JStr(<<"7">>), JAbsent, JAbsent, JCollection(JAbsent, JAbsent)),
      JFolderDoc(JStr(<<"7">>), JStr(<<"n1">>), JAbsent, JAbsent),
      JFolderDoc(JStr(<<"7">>), JAbsent, JAbsent, JNull),
      JFolderDoc(JStr(<<"7">>), JAbsent, JAbsent, JStr(<<"none">>)) }

ItemsReplies ==
    {TransportError, Response(200, BadJSON, TRUE)}
        \cup {Response(200, JSONBytes(d), TRUE) : d \in FolderDocs}
        \cup {Response(404, JSONBytes(JFolderDoc(JAbsent, JAbsent, JAbsent, JAbsent)), TRUE)}

InitItemsSpec ==
    /\ box = SetAccessToken(SetAppInfo(NewBox, <<"id">>, <<"secret">>), <<"t1">>)
    /\ recv \in {[kind |-> "Folder", v |-> Folder(id, <<>>, NilPtr, ic)] :
                     id \in Ids, ic \in InitCollections}
    /\ parent = Item(<<>>, <<>>, NilPtr)
    /\ last = Plain("NewBox", NoErr, <<>>, FALSE)
    /\ calls = 0
    /\ sent = 0
    /\ given = Ptr(<<"t1">>)
    /\ tstatus = MinStatus
    /\ tresults = <<>>

\* A call of Folder.Items; after a panic the program makes no more calls.
CallFolderItems ==
    /\ calls < MaxCalls
    /\ ~last.panicked
    /\ \E reply \in ItemsReplies :
           LET res == FolderItems(box, recv.v, reply)
           IN  /\ recv' = [recv EXCEPT !.v = res.recv]
               /\ last' = Outcome("Folder.Items", <<>>, reply, res.items, res.err,
                                  res.wire, <<>>, res.panicked)
               /\ sent' = sent + Len(res.wire)
    /\ calls' = calls + 1
    /\ UNCHANGED <<box, parent, given, tstatus, tresults>>

NextItems == CallFolderItems

SpecItems == InitItemsSpec /\ [][NextItems]_vars

----------------------------------------------------------------------------
(* Marshalling a value and unmarshalling the result *)

\* The strings of the values: empty, plain, with a byte that is no UTF-8.
RoundTripStrings == {<<>>, <<"7">>, <<"a", InvalidByte>>}

\* The times: the zero time, the epoch, a day of 2022, the last day of the
\* year 9999 and the first of 10000; in UTC and in zones with offsets of
\* whole hours, of 19 minutes 32 seconds, of 30 seconds to the west.
RoundTripTimes ==
    {Time(day, sod, nsec, off) :
         day \in {ZeroDay, 0, 19000, MaxDay, MaxDay + 1}, sod \in {0, 86399},
         nsec \in {0, 500}, off \in {0, 3600, -3600, 1172, -30}}

RoundTripLocks ==
    {BoxLock(id, c, d) :
         id \in {<<>>, <<"7">>},
         c \in {NilPtr} \cup {Ptr(Time(day, 0, nsec, off)) :
                                  day \in {ZeroDay, 19000}, nsec \in {0, 500}, off \in {0, 3600, 1172}},
         d \in BOOLEAN}

RoundTripCollections ==
    {NilPtr, Ptr(Collection(0, NilSlice)), Ptr(Collection(0, Slice(<<>>))),
     Ptr(Collection(2, Slice(<<Entity(<<"5">>, <<"x.txt">>), Entity(<<>>, <<>>)>>)))}

RoundTripParents == {NilPtr, Ptr(Entity(<<>>, <<>>)), Ptr(Entity(<<"p">>, <<"pn">>))}

RoundTripValues ==
    {[kind |-> "File", v |-> Item(id, <<"n">>, par)] :
         id \in RoundTripStrings, par \in RoundTripParents}
      \cup {[kind |-> "Folder", v |-> Folder(id, <<>>, par, ic)] :
                id \in RoundTripStrings, par \in RoundTripParents, ic \in RoundTripCollections}
      \cup {[kind |-> "BoxLock", v |-> l] : l \in RoundTripLocks}
      \cup {[kind |-> "BoxTime", v |-> t] : t \in RoundTripTimes}

InitRoundTrip ==
    /\ box = NewBox
    /\ recv \in RoundTripValues
    /\ parent = Item(<<>>, <<>>, NilPtr)
    /\ last = Plain("NewBox", NoErr, <<>>, FALSE)
    /\ calls = 0
    /\ sent = 0
    /\ given = NilPtr
    /\ tstatus = MinStatus
    /\ tresults = <<>>

\* The value is marshalled and the result unmarshalled into a new value.
ApplyRoundTrip ==
    /\ calls = 0
    /\ LET r == RoundTrip(recv)
       IN  last' = Outcome("RoundTrip", <<>>, NoReply, Ptr(r.v), r.err, <<>>, <<>>, FALSE)
    /\ calls' = 1
    /\ UNCHANGED <<box, recv, parent, sent, given, tstatus, tresults>>

NextRoundTrip == ApplyRoundTrip

SpecRoundTrip == InitRoundTrip /\ [][NextRoundTrip]_vars

----------------------------------------------------------------------------
(* Properties *)

\* The status codes of the table of error.go.
TableCodes == {200, 201, 202, 204, 302, 304, 401, 403, 404, 405, 409, 412, 429, 500, 503}

\* The sentinel values of error.go.
Sentinels ==
    {SUCCESS, CREATED, ACCEPTED, NO_CONTENT, REDIRECT, NOT_MODIFIED, UNAUTHORIZED,
     FORBIDDEN, NOT_FOUND, NOT_ALLOWED, CONFLICT, PRECONDITION_FAILED,
     TOO_MANY_REQUESTS, SERVER_ERROR, UNAVAILABLE}

\* The operations that go through doRequest.
RequestOps ==
    {"File.Get", "File.Delete", "File.Rename", "File.Move", "File.Copy",
     "Folder.Create", "Folder.Get", "Folder.Delete", "Folder.Rename", "Folder.Move",
     "Folder.Copy"}

\* All resource operations.
ResourceOps == RequestOps \cup {"File.UploadFile"}

\* The last call was a resource operation whose request got a response
\* that was read to its end.
GotResponse ==
    /\ last.op \in ResourceOps
    /\ Len(last.wire) > 0
    /\ last.reply.t = "response"
    /\ last.reply.readOK

\* C1: every value toError returns carries the status code it was given;
\* for a code of the table it is a sentinel of error.go, the same value on
\* every call; for any other code it is a generic BoxError (no sentinel)
\* with the message "Unknown error".
C1_ToErrorTable ==
    \A i \in 1..Len(tresults) :
        LET r == tresults[i]
        IN  /\ r.StatusCode = tstatus
            /\ tstatus \in TableCodes => r \in Sentinels /\ r = tresults[1]
            /\ tstatus \notin TableCodes => r.Message = "Unknown error" /\ r \notin Sentinels

\* toError was called twice with 404 and returned NOT_FOUND the second time.
C1_Witness == Len(tresults) >= 2 /\ tstatus = 404 /\ tresults[2] = NOT_FOUND

\* C2: when the server answers the request of a resource operation with a
\* non-2xx status, the error returned is the sentinel of the table for that
\* status, and for a status outside the table a generic BoxError carrying
\* the status code.
C2_ErrorStatusGivesSentinel ==
    (GotResponse /\ (last.reply.status < 200 \/ last.reply.status > 299)) =>
        IF last.reply.status \in TableCodes
        THEN last.err \in Sentinels /\ last.err.StatusCode = last.reply.status
        ELSE /\ "StatusCode" \in DOMAIN last.err
             /\ last.err.StatusCode = last.reply.status
             /\ last.err.Message = "Unknown error"

\* C3: getResponse fails exactly on the non-2xx statuses: for the response
\* to the last request it yields an error and no body when the status is
\* outside 200..299, and the body and no error when it is inside.
C3_FailureIffNon2xx ==
    GotResponse =>
        LET g == getResponse(last.reply)
        IN  IF last.reply.status >= 200 /\ last.reply.status <= 299
            THEN g.err = NoErr /\ g.b = last.reply.body /\ (last.op = "File.Delete" => last.err = NoErr)
            ELSE g.err # NoErr /\ g.b = NilBytes

\* C4: a call of a resource operation hands at most one request to the
\* HTTP client, also when the request fails, so the requests sent never
\* outnumber the calls made.
C4_AtMostOneRequestPerCall ==
    /\ Len(last.wire) <= 1
    /\ sent <= calls

\* Two calls were made, each sent its request, and the last one failed in
\* the transport.
C4_Witness ==
    /\ calls >= 2
    /\ sent = calls
    /\ last.op \in ResourceOps
    /\ last.reply.t = "transportError"
    /\ last.err # NoErr

\* The error json.Unmarshal returns for the body (it does not depend on
\* the struct decoded into).
DecodeErr(body) == Unmarshal(body, Item(<<>>, <<>>, NilPtr)).err

\* C5: whatever fails in the request of Get, Delete, Rename, Move, Copy or
\* Create is the error the operation returns: the transport's error, the
\* error of reading the body, the error getResponse makes for the status,
\* the error of decoding the body; none is replaced by nil.
C5_FailureReturnedUnchanged ==
    (last.op \in RequestOps /\ Len(last.wire) > 0) =>
        IF last.reply.t = "transportError"
        THEN last.err = LibError("net/http", "Do")
        ELSE IF getResponse(last.reply).err # NoErr
             THEN last.err = getResponse(last.reply).err
             ELSE IF last.op \in {"File.Delete", "Folder.Delete"}
                  THEN last.err = NoErr
                  ELSE last.err = DecodeErr(last.reply.body)

\* Folder.Rename got a 200 response whose body does not decode and
\* returned the decoding error.
C5_Witness ==
    /\ last.op = "Folder.Rename"
    /\ GotResponse
    /\ last.reply.status = 200
    /\ last.err = LibError("encoding/json", "UnmarshalTypeError")

\* The operations that check the Id of the parent as well as the Id of
\* the receiver.
ParentIdOps == {"File.Move", "File.Copy", "Folder.Move", "Folder.Copy"}

\* C6: a call of Get, Delete, Rename or Create on a struct with an empty
\* Id, or of Move or Copy with an empty Id on the receiver or the parent,
\* returns an error and sends no request; with the Ids non-empty the
\* request is sent, whatever the other fields hold.
C6_IdRequired ==
    [][(calls' = calls + 1 /\ last'.op \in RequestOps) =>
          LET empty == \/ recv.v.Id = <<>>
                       \/ last'.op \in ParentIdOps /\ parent.Id = <<>>
          IN  IF empty
              THEN /\ last'.err.type = "errorString"
                   /\ last'.wire = <<>>
                   /\ sent' = sent
              ELSE /\ Len(last'.wire) = 1
                   /\ sent' = sent + 1]_vars

\* Move was called with an Id on the receiver and none on the parent: it
\* returned an error and sent nothing.
C6_Witness ==
    /\ last.op = "Folder.Move"
    /\ recv.v.Id # <<>>
    /\ parent.Id = <<>>
    /\ last.wire = <<>>
    /\ last.err = ErrorString("Empty id while using Move", 0)

\* The operations that decode the response into the receiver.
PopulatingOps ==
    {"File.Get", "File.Rename", "File.Move", "Folder.Get", "Folder.Rename", "Folder.Move"}

\* The string a JSON value gives a field that held old: the string it
\* carries, and old when it carries none.
Merged(jv, old) == IF jv.t = "str" THEN jv.s ELSE old

\* C7 as the spec has it: after a successful Get, Rename or Move every
\* field of the receiver is what the response carries for it, and a field
\* the response does not carry is empty (the Id, which the caller has to
\* set beforehand, is the one field allowed to stay).
C7_ReceiverIsTheResponse ==
    (last.op \in PopulatingOps /\ last.err = NoErr) =>
        LET doc == last.reply.body.doc
        IN  /\ recv.v.Id = Merged(doc.id, recv.v.Id)
            /\ recv.v.Name = Merged(doc.name, <<>>)
            /\ recv.v.Parent =
                   IF doc.parent.t = "obj"
                   THEN Ptr(Entity(Merged(doc.parent.id, <<>>), Merged(doc.parent.name, <<>>)))
                   ELSE NilPtr

\* C7, amended: after a successful Get, Rename or Move the receiver is its
\* value from before the call with the response laid over it: a field the
\* response carries holds the response's value, a Parent the response
\* carries as null is nil, and every field the response does not carry
\* (inside Parent too) keeps the value it had before the call.
C7_ReceiverIsResponseOverPrevious ==
    [][(calls' = calls + 1 /\ last'.op \in PopulatingOps /\ last'.err = NoErr) =>
          LET doc == last'.reply.body.doc
              old == recv.v
              new == recv'.v
              oldPar == IF old.Parent.isNil THEN Entity(<<>>, <<>>) ELSE old.Parent.v
          IN  /\ new.Id = Merged(doc.id, old.Id)
              /\ new.Name = Merged(doc.name, old.Name)
              /\ new.Parent =
                     CASE doc.parent.t = "obj" ->
                              Ptr(Entity(Merged(doc.parent.id, oldPar.Id),
                                         Merged(doc.parent.name, oldPar.Name)))
                       [] doc.parent.t = "null" -> NilPtr
                       [] OTHER -> old.Parent]_vars

\* A successful call whose response carried no name left the name "old",
\* which the caller had set, in the receiver.
C7_Witness ==
    /\ last.op \in PopulatingOps
    /\ last.err = NoErr
    /\ last.reply.body.doc.name.t = "absent"
    /\ recv.v.Name = <<"old">>

CopyOps == {"File.Copy", "Folder.Copy"}

\* The request of the call recorded in o failed before any decoding: it
\* was not sent, the transport failed, or getResponse returned an error.
FailedBeforeDecoding(o) ==
    \/ Len(o.wire) = 0
    \/ o.reply.t = "transportError"
    \/ getResponse(o.reply).err # NoErr

\* C8 as the spec has it: Copy leaves the receiver and the parent as they
\* are; on success it returns a struct with the fields the response
\* carries, on every failure it returns a nil struct with the error.
C8_CopyNilOnEveryFailure ==
    [][(calls' = calls + 1 /\ last'.op \in CopyOps) =>
          /\ recv' = recv
          /\ parent' = parent
          /\ IF last'.err = NoErr
             THEN /\ ~last'.ret.isNil
                  /\ last'.ret.v.Id = Merged(last'.reply.body.doc.id, <<>>)
                  /\ last'.ret.v.Name = Merged(last'.reply.body.doc.name, <<>>)
             ELSE last'.ret.isNil]_vars

\* C8, amended: Copy leaves the receiver and the parent as they are.  When
\* the request fails before decoding (empty Id, transport error, error
\* status) it returns a nil struct and the error.  Otherwise it returns a
\* new struct, together with the decoding error if decoding failed; on
\* success the struct is the response laid over a struct whose Parent
\* holds the Id of the parent argument.
C8_CopyFrame ==
    [][(calls' = calls + 1 /\ last'.op \in CopyOps) =>
          /\ recv' = recv
          /\ parent' = parent
          /\ IF FailedBeforeDecoding(last')
             THEN last'.ret.isNil /\ last'.err # NoErr
             ELSE /\ ~last'.ret.isNil
                  /\ last'.err = DecodeErr(last'.reply.body)
                  /\ last'.err = NoErr =>
                       LET doc == last'.reply.body.doc
                           r == last'.ret.v
                       IN  /\ r.Id = Merged(doc.id, <<>>)
                           /\ r.Name = Merged(doc.name, <<>>)
                           /\ r.Parent =
                                  CASE doc.parent.t = "obj" ->
                                           Ptr(Entity(Merged(doc.parent.id, parent.Id),
                                                      Merged(doc.parent.name, <<>>)))
                                    [] doc.parent.t = "null" -> NilPtr
                                    [] OTHER -> Ptr(Entity(parent.Id, <<>>))]_vars

\* File.Copy got a 200 response that does not decode and returned the
\* decoding error together with a struct.
C8_Witness ==
    /\ last.op = "File.Copy"
    /\ GotResponse
    /\ last.err = LibError("encoding/json", "UnmarshalTypeError")
    /\ ~last.ret.isNil

\* C9: every request handed to the HTTP client carries the access token
\* most recently given to SetAccessToken or obtained by Auth (none if there
\* was none), and AccessToken() returns that token.
C9_RequestsCarryLatestToken ==
    /\ \A i \in 1..Len(last.wire) :
           LET t == last.wire[i].token
           IN  /\ t.isNil <=> given.isNil
               /\ ~t.isNil => t.v.AccessToken = given.v
    /\ (last.op = "AccessToken" /\ ~given.isNil) =>
           ~last.panicked /\ last.str = given.v

\* After an earlier request, a request was sent that carries the token
\* obtained by Auth.
C9_Witness ==
    /\ calls >= 2
    /\ sent >= 2
    /\ Len(last.wire) = 1
    /\ ~last.wire[1].token.isNil
    /\ last.wire[1].token.v = Token(<<"a1">>, <<"Bearer">>)

\* A path with its "/" separators kept and each segment escaped.
EscapeSegments(path) ==
    [i \in 1..Len(path) |-> IF path[i] = "/" THEN "/" ELSE EscapeToken(path[i])]

\* The path Delete and Copy hand to doRequest for a receiver with the given Id.
PathOf(op, id) ==
    CASE op = "File.Delete" -> <<"files", "/">> \o id
      [] op = "Folder.Delete" -> <<"folders", "/">> \o id
      [] op = "File.Copy" -> <<"files", "/">> \o id \o <<"/", "copy">>
      [] op = "Folder.Copy" -> <<"folders", "/">> \o id \o <<"/", "copy">>

\* C10: the URL of a request of doRequest is APIURL, "/", the path with
\* its "/" separators kept and each segment escaped, then "?" and the
\* encoded parameters if and only if there are parameters (stated for
\* Delete and Copy, which leave the Id of the receiver as it was).
C10_URLKeepsSeparators ==
    (last.op \in {"File.Delete", "Folder.Delete", "File.Copy", "Folder.Copy"}
        /\ Len(last.wire) = 1) =>
        last.wire[1].url =
            box.APIURL \o <<"/">> \o EscapeSegments(PathOf(last.op, recv.v.Id)) \o
                (IF last.op = "Folder.Delete" THEN <<"?", "recursive", "=", "true">> ELSE <<>>)

\* C13: the upload is named after the Name of the file object when that
\* is non-empty and after the base name of the local path when it is
\* empty; of the parent folder only the Id goes into the request, as the
\* form field parent_id, and the parent is left as it was.
C13_UploadName ==
    [][(calls' = calls + 1 /\ last'.op = "File.UploadFile" /\ Len(last'.wire) > 0) =>
          LET name == IF recv.v.Name # <<>> THEN recv.v.Name ELSE Base(last'.arg)
              req == last'.wire[1]
          IN  /\ req.body.filename = name
              /\ req.body.parent_id = parent.Id
              /\ req = Request("POST", box.UPLOADURL \o <<"/", "files", "/", "content">>,
                               Multipart(name, req.body.content, parent.Id), box.token)
              /\ parent' = parent]_vars

\* A file object without a Name was uploaded from dir/x.txt into the
\* folder 9: the request names it x.txt and carries parent_id 9.
C13_Witness ==
    /\ last.op = "File.UploadFile"
    /\ last.arg = <<"dir", "/", "x.txt">>
    /\ Len(last.wire) = 1
    /\ last.wire[1].body.filename = <<"x.txt">>
    /\ last.wire[1].body.parent_id = <<"9">>

\* Whether the URL has a query, and the query (what follows the first "?").
HasQuery(url) == \E i \in 1..Len(url) : url[i] = "?"

QueryOf(url) ==
    LET k == CHOOSE i \in 1..Len(url) : url[i] = "?" /\ \A j \in 1..(i - 1) : url[j] # "?"
    IN  SubSeq(url, k + 1, Len(url))

\* C14: the request of Folder.Delete is a DELETE with the query
\* recursive=true, the request of File.Delete is a DELETE without a query,
\* and neither changes the receiver.
C14_DeleteQuery ==
    [][(calls' = calls + 1 /\ last'.op \in {"File.Delete", "Folder.Delete"}) =>
          /\ recv' = recv
          /\ \A i \in 1..Len(last'.wire) :
                 LET req == last'.wire[i]
                 IN  /\ req.method = "DELETE"
                     /\ IF last'.op = "Folder.Delete"
                        THEN HasQuery(req.url) /\ QueryOf(req.url) = <<"recursive", "=", "true">>
                        ELSE ~HasQuery(req.url)]_vars

\* Folder.Delete sent its request with the query recursive=true and got
\* the answer 200.
C14_Witness ==
    /\ last.op = "Folder.Delete"
    /\ Len(last.wire) = 1
    /\ last.wire[1].url =
           box.APIURL \o <<"/", "folders", "%2F", "7", "?", "recursive", "=", "true">>
    /\ last.reply.t = "response"
    /\ last.reply.status = 200
    /\ last.err = NoErr

\* C15: UploadFile surfaces the failures of preparing the upload: when the
\* local file does not open it returns that error and sends no request,
\* and no request carries a body into which the file was copied only in
\* part (a failed copy ends the call with its error instead).
C15_UploadPreparationSurfaced ==
    last.op = "File.UploadFile" =>
        /\ last.err = LibError("os", "Open") => last.wire = <<>>
        /\ \A i \in 1..Len(last.wire) : last.wire[i].body.content # "partial"

\* What Items does when it returns: on a folder that holds an item
\* collection no request, no error and the entries of that collection; on
\* a folder that holds none at most one request, a GET, and then either an
\* error with no items or the entries of the collection Get stored.
ItemsReturned ==
    IF ~recv.v.ItemCollection.isNil
    THEN /\ last'.wire = <<>>
         /\ last'.err = NoErr
         /\ last'.ret = recv.v.ItemCollection.v.Entry
         /\ recv' = recv
    ELSE /\ Len(last'.wire) <= 1
         /\ \A i \in 1..Len(last'.wire) : last'.wire[i].method = "GET"
         /\ recv.v.Id # <<>> => Len(last'.wire) = 1
         /\ last'.err # NoErr => last'.ret = NilSlice
         /\ last'.err = NoErr =>
                /\ ~recv'.v.ItemCollection.isNil
                /\ last'.ret = recv'.v.ItemCollection.v.Entry

\* C12: Folder.Items returns: the entries of the item collection without
\* a request when the folder holds a collection, and otherwise, after
\* one Get, the entries that Get stored or the error of Get and no items.
C12_ItemsReturnsEntries ==
    [][(calls' = calls + 1 /\ last'.op = "Folder.Items") =>
          ~last'.panicked /\ ItemsReturned]_vars

\* Whenever Items does not panic it does what ItemsReturned says.
ItemsUnlessPanic ==
    [][(calls' = calls + 1 /\ last'.op = "Folder.Items" /\ ~last'.panicked) =>
          ItemsReturned]_vars

\* Equality of a value and the result of its round trip, times compared
\* as instants.
SameTimePtr(a, b) ==
    /\ a.isNil = b.isNil
    /\ ~a.isNil => Instant(a.v) = Instant(b.v)

SameValue(x, r) ==
    CASE x.kind = "BoxTime" -> Instant(r) = Instant(x.v)
      [] x.kind = "BoxLock" ->
             /\ r.Id = x.v.Id
             /\ r.Download = x.v.Download
             /\ SameTimePtr(r.CreatedAt, x.v.CreatedAt)
      [] OTHER -> r = x.v

\* The BoxTime fields of the value are at whole-second precision.
WholeSeconds(x) ==
    CASE x.kind = "BoxTime" -> x.v.nsec = 0
      [] x.kind = "BoxLock" -> x.v.CreatedAt.isNil \/ x.v.CreatedAt.v.nsec = 0
      [] OTHER -> TRUE

ValidUtf8(s) == \A i \in 1..Len(s) : s[i] # InvalidByte

\* A whole-second time whose zone offset is a whole number of minutes and
\* whose wall-clock year is in 0..9999.
PlainTime(t) ==
    /\ t.nsec = 0
    /\ t.off % 60 = 0
    /\ Format(t).day \in MinDay..MaxDay

PlainEntity(e) == ValidUtf8(e.Id) /\ ValidUtf8(e.Name)

\* Strings are valid UTF-8, slices are nil or hold an element, times are
\* plain.
PlainValue(x) ==
    CASE x.kind = "BoxTime" -> PlainTime(x.v)
      [] x.kind = "BoxLock" ->
             /\ ValidUtf8(x.v.Id)
             /\ x.v.CreatedAt.isNil \/ PlainTime(x.v.CreatedAt.v)
      [] OTHER ->
             /\ ValidUtf8(x.v.Id) /\ ValidUtf8(x.v.Name)
             /\ x.v.Parent.isNil \/ PlainEntity(x.v.Parent.v)
             /\ x.kind = "Folder" /\ ~x.v.ItemCollection.isNil =>
                    LET e == x.v.ItemCollection.v.Entry
                    IN  e.isNil \/ (Len(e.elems) > 0 /\ \A i \in 1..Len(e.elems) : PlainEntity(e.elems[i]))

\* C11 as stated: every value whose BoxTime fields are at whole-second
\* precision comes back equal from unmarshal(marshal(v)), a BoxTime as
\* the same instant.
C11_RoundTripEqual ==
    (last.op = "RoundTrip" /\ WholeSeconds(recv)) =>
        last.err = NoErr /\ SameValue(recv, last.ret.v)

\* C11: a value whose strings are valid UTF-8, whose slices are nil or
\* non-empty and whose BoxTime fields are whole-second times with a zone
\* offset of whole minutes and a wall-clock year in 0..9999 comes back
\* equal from unmarshal(marshal(v)), times compared as instants.
C11_RoundTripPlainValues ==
    (last.op = "RoundTrip" /\ PlainValue(recv)) =>
        last.err = NoErr /\ SameValue(recv, last.ret.v)

\* A lock with a creation time in a zone one hour east of UTC went through
\* the round trip and came back with that instant.
C11_Witness ==
    /\ last.op = "RoundTrip"
    /\ recv.kind = "BoxLock"
    /\ recv.v.Download
    /\ ~recv.v.CreatedAt.isNil
    /\ recv.v.CreatedAt.v = Time(19000, 0, 0, 3600)
    /\ last.err = NoErr
    /\ last.ret.v.CreatedAt.v = Time(19000, 0, 0, 3600)

============================================================================
